---- MODULE Spec2Model ----
(***************************************************************************)
(* A model of ado-wrapper's state-managed resource layer:                  *)
(*   - the JSON codec (recursively_convert_to_json / _from_json,           *)
(*     StateManagedResource.to_json / from_json),                          *)
(*   - the generic lifecycle engine (_get_by_url, _create, _delete_by_id,  *)
(*     _update) and Repo's callers of it,                                  *)
(*   - the State Store and the plan list the engine writes to.             *)
(* One action is one whole call of a public method; the HTTP collaborator  *)
(* is a stub whose responses are the action's inputs.                      *)
(***************************************************************************)
EXTENDS Integers, Sequences, FiniteSets, TLC

VARIABLES
    plan_mode,          \* ado_client.plan_mode
    suppress_warnings,  \* ado_client.suppress_warnings
    state,              \* the State Store: <<kind, id>> -> serialized resource
    planned,            \* the in-memory plan list
    inst,               \* the resource instance the caller holds (or NoInst)
    call,               \* the last call: its inputs, outcome, events, pre-state
    ncalls,             \* number of calls made so far
    phase,              \* codec run: "idle", "start", "encoded", "decoded"
    original,           \* codec run: the resource being encoded
    encoded,            \* codec run: to_json(original)
    decoded,            \* codec run: from_json(encoded)
    reencoded,          \* codec run: to_json(decoded)
    target,             \* codec run: the class from_json is called on
    audit               \* AuditLog.get_all in progress: its arguments, locals, requests, result

vars == <<plan_mode, suppress_warnings, state, planned, inst, call, ncalls,
          phase, original, encoded, decoded, reencoded, target, audit>>

lifecycle_vars == <<plan_mode, suppress_warnings, state, planned, inst, call, ncalls>>
codec_vars == <<phase, original, encoded, decoded, reencoded, target>>

\* ------------------------------------------------------------------ bounds

\* Number of public calls made in one behaviour.
MaxCalls == 3

\* Longest list: of a field of an encoded resource, of a listing's "value".
MaxListLen == 2

\* ------------------------------------------------------------ Python values
\* A value is [t |-> its type, v |-> its content]. Scalars keep in v the text
\* str() gives for them, so str(value) is the same text under the type "str".

Str(s) == [t |-> "str", v |-> s]
Bool(b) == [t |-> "bool", v |-> IF b THEN "True" ELSE "False"]
PyInt(n) == [t |-> "int", v |-> ToString(n)]
None == [t |-> "none", v |-> "None"]
\* A datetime, held as its isoformat() text.
Datetime(iso) == [t |-> "datetime", v |-> iso]
List(seq) == [t |-> "list", v |-> seq]
Dict(f) == [t |-> "dict", v |-> f]
\* A dataclass instance of class cls with the given fields.
Obj(cls, fields) == [t |-> cls, v |-> fields]
\* A raised exception.
Err(kind, cls, detail) == [t |-> "error", v |-> kind, cls |-> cls, detail |-> detail]

IsErr(x) == x.t = "error"

\* bool(x)
truthy(x) ==
    CASE x.t = "bool" -> x.v = "True"
      [] x.t = "none" -> FALSE
      [] x.t = "str" -> x.v # ""
      [] x.t = "int" -> x.v # "0"
      [] x.t = "list" -> Len(x.v) > 0
      [] x.t = "dict" -> DOMAIN x.v # {}
      [] OTHER -> TRUE

\* A JSON key: attribute name, and the text after "::" ("" when the key has no "::").
Key(name, tag) == [name |-> name, tag |-> tag]

\* The timestamps of the model, as isoformat() texts.
IsoTexts == {"2021-08-01T00:00:00", "2024-01-01T01:01:01"}

\* ------------------------------------------------------------ resource types

\* utils.get_resource_variables(): the registry of state-managed resource types.
get_resource_variables == {"Repo", "Project", "Environment", "Member", "PullRequest"}

\* The declared fields of each dataclass.
RepoFields == {"repo_id", "name", "default_branch", "is_disabled"}
ProjectFields == {"project_id", "name", "description", "last_update_time"}
EnvironmentFields == {"environment_id", "name", "description", "resources",
                      "created_by", "created_on", "modified_by", "modified_on"}
MemberFields == {"name", "email", "member_id"}
PullRequestFields == {"pull_request_id", "title", "author", "creation_date", "is_draft"}

\* The fields that have a default, with the default.
RepoDefaults == [default_branch |-> Str("main"), is_disabled |-> Bool(FALSE)]
ProjectDefaults == [last_update_time |-> None]

\* RepoEditable with the identifier field marked editable too.
RepoEditable_with_id == [repo_id |-> "id", name |-> "name", default_branch |-> "defaultBranch",
                         is_disabled |-> "isDisabled"]

\* The editable fields (metadata "editable"), each with its name on the wire
\* (metadata "internal_name", else the field's own name).
RepoEditable == [name |-> "name", default_branch |-> "defaultBranch",
                 is_disabled |-> "isDisabled"]
EnvironmentEditable == [name |-> "name", description |-> "description"]

\* dataclasses.fields(cls), as to_json and the constructor use it.
fields(cls) ==
    CASE cls = "Repo" -> RepoFields
      [] cls = "Project" -> ProjectFields
      [] cls = "Environment" -> EnvironmentFields
      [] cls = "Member" -> MemberFields
      [] cls = "PullRequest" -> PullRequestFields
      [] OTHER -> {}

field_defaults(cls) ==
    CASE cls = "Repo" -> RepoDefaults
      [] cls = "Project" -> ProjectDefaults
      [] OTHER -> <<>>

\* The field marked is_id_field.
id_field(cls) ==
    CASE cls = "Repo" -> "repo_id"
      [] cls = "Project" -> "project_id"
      [] cls = "Environment" -> "environment_id"
      [] cls = "Member" -> "member_id"
      [] cls = "PullRequest" -> "pull_request_id"

\* utils.extract_id(resource): the value of the identifier field.
extract_id(resource) == resource.v[id_field(resource.t)].v

\* utils.get_internal_field_names(cls): editable field -> its name on the wire.
get_internal_field_names(cls) ==
    CASE cls = "Repo" -> RepoEditable
      [] cls = "Environment" -> EnvironmentEditable
      [] OTHER -> <<>>

\* ------------------------------------------------------------------ JSON codec

RECURSIVE recursively_convert_to_json(_, _)
RECURSIVE to_json(_)

\* recursively_convert_to_json without the datetime case: a timestamp falls
\* through to str().
to_json_datetime_unmarked(attribute_name, attribute_value) ==
    IF attribute_value.t = "dict" THEN
        <<Key(attribute_name, ""),
          Dict([key \in DOMAIN attribute_value.v |->
                    recursively_convert_to_json("", attribute_value.v[key])[2]])>>
    ELSE IF attribute_value.t = "list" THEN
        <<Key(attribute_name, ""),
          List([i \in DOMAIN attribute_value.v |->
                    recursively_convert_to_json(attribute_name, attribute_value.v[i])[2]])>>
    ELSE IF attribute_value.t \in get_resource_variables THEN
        <<Key(attribute_name, attribute_value.t), to_json(attribute_value)>>
    ELSE
        <<Key(attribute_name, ""), Str(attribute_value.v)>>

\* Returns <<key, JSON value>>.
recursively_convert_to_json(attribute_name, attribute_value) ==
    IF attribute_value.t = "dict" THEN
        <<Key(attribute_name, ""),
          Dict([key \in DOMAIN attribute_value.v |->
                    recursively_convert_to_json("", attribute_value.v[key])[2]])>>
    ELSE IF attribute_value.t = "list" THEN
        <<Key(attribute_name, ""),
          List([i \in DOMAIN attribute_value.v |->
                    recursively_convert_to_json(attribute_name, attribute_value.v[i])[2]])>>
    ELSE IF attribute_value.t = "datetime" THEN
        <<Key(attribute_name, "datetime"), Str(attribute_value.v)>>
    ELSE IF attribute_value.t \in get_resource_variables THEN
        <<Key(attribute_name, attribute_value.t), to_json(attribute_value)>>
    ELSE
        <<Key(attribute_name, ""), Str(attribute_value.v)>>

\* StateManagedResource.to_json: a dict of the converted fields.
to_json(self) ==
    LET combined == {recursively_convert_to_json(n, self.v[n]) : n \in DOMAIN self.v}
    IN  Dict([k \in {p[1] : p \in combined} |-> (CHOOSE p \in combined : p[1] = k)[2]])

\* datetime.fromisoformat(value)
fromisoformat(value) ==
    IF value.t = "str" /\ value.v \in IsoTexts
    THEN Datetime(value.v)
    ELSE Err("ValueError", "datetime", "Invalid isoformat string")

RECURSIVE from_json(_, _)

\* convert_entry leaving the dict under a key marked with a type as it is.
convert_entry_nested_undecoded(dictionary, key) ==
    IF key.tag = "datetime" THEN
        fromisoformat(dictionary.v[key])
    ELSE
        dictionary.v[key]

\* convert_entry leaving the text under a "::datetime" key unparsed.
convert_entry_datetime_unparsed(dictionary, key) ==
    IF key.tag # "" /\ key.tag # "datetime" THEN
        IF key.tag \in get_resource_variables
        THEN from_json(key.tag, dictionary.v[key])
        ELSE Err("KeyError", key.tag, "unknown type")
    ELSE
        dictionary.v[key]

\* The value recursively_convert_from_json leaves under one key of its input.
convert_entry(dictionary, key) ==
    IF key.tag # "" /\ key.tag # "datetime" THEN
        IF key.tag \in get_resource_variables
        THEN from_json(key.tag, dictionary.v[key])
        ELSE Err("KeyError", key.tag, "unknown type")
    ELSE IF key.tag = "datetime" THEN
        fromisoformat(dictionary.v[key])
    ELSE
        dictionary.v[key]

\* recursively_convert_from_json: the keyword arguments by name, or the error raised.
\* A marked key replaces a plain key of the same name.
recursively_convert_from_json(dictionary) ==
    LET keys == DOMAIN dictionary.v
        names == {k.name : k \in keys}
        pick(n) == IF \E k \in keys : k.name = n /\ k.tag # ""
                   THEN CHOOSE k \in keys : k.name = n /\ k.tag # ""
                   ELSE CHOOSE k \in keys : k.name = n
        failed == {k \in keys : k.tag # "" /\ IsErr(convert_entry(dictionary, k))}
    IN  IF failed # {}
        THEN convert_entry(dictionary, CHOOSE k \in failed : TRUE)
        ELSE Dict([n \in names |-> convert_entry(dictionary, pick(n))])

\* construct giving None to a required field that is not among the arguments.
construct_missing_as_none(cls, kwargs) ==
    LET given == DOMAIN kwargs.v
        defaults == field_defaults(cls)
    IN  IF given \ fields(cls) # {}
        THEN Err("TypeError", cls, "unexpected keyword argument")
        ELSE Obj(cls, [f \in fields(cls) |->
                           IF f \in given THEN kwargs.v[f]
                           ELSE IF f \in DOMAIN defaults THEN defaults[f] ELSE None])

\* cls(**kwargs): the dataclass constructor.
construct(cls, kwargs) ==
    LET given == DOMAIN kwargs.v
        defaults == field_defaults(cls)
    IN  IF given \ fields(cls) # {}
        THEN Err("TypeError", cls, "unexpected keyword argument")
        ELSE IF (fields(cls) \ DOMAIN defaults) \ given # {}
        THEN Err("TypeError", cls, "missing required argument")
        ELSE Obj(cls, [f \in fields(cls) |-> IF f \in given THEN kwargs.v[f] ELSE defaults[f]])

\* StateManagedResource.from_json
from_json(cls, data) ==
    IF data.t # "dict"
    THEN Err("AttributeError", cls, "not a dict")
    ELSE LET kwargs == recursively_convert_from_json(data)
         IN  IF IsErr(kwargs) THEN kwargs ELSE construct(cls, kwargs)

\* ------------------------------------------------------------ HTTP collaborator

Ids == {"1", "2"}
Names == {"a", "b"}

\* Statuses the stub answers with: below 300, and 300 or more.
OkStatuses == {200, 204}
FailStatuses == {300, 401, 403, 404, 409, 500}

\* A response: status_code, text, and json() of the body.
Response(status_code, text, json) == [status_code |-> status_code, text |-> text, json |-> json]

\* Refusals: one per status, and for 500 also another text and a body with a
\* "message" member.
Refusals ==
    {Response(s, "denied", <<>>) : s \in FailStatuses}
    \cup {Response(500, "boom", <<>>), Response(500, "boom", [message |-> Str("refused")])}

\* The answers of the stub whose successful bodies are drawn from `payloads`;
\* a 409 answers with the body of the resource in the way.
Responses(payloads) ==
    {Response(s, "body", p) : s \in OkStatuses, p \in payloads}
    \cup {Response(409, "conflict", p) : p \in payloads}
    \cup Refusals

\* Payloads of the repositories API (dumps: id, name, defaultBranch, isDisabled),
\* and one that lacks its id.
RepoPayloads ==
    {[id |-> Str(i), name |-> Str("a")] : i \in Ids}
    \cup {[id |-> Str("1"), name |-> Str("b"), defaultBranch |-> Str("refs/heads/dev"),
           isDisabled |-> Bool(TRUE)]}
    \cup {[name |-> Str("a")]}

ProjectPayloads ==
    {[id |-> Str("1"), name |-> Str("a")],
     [id |-> Str("2"), name |-> Str("a"), description |-> Str("d"),
      lastUpdateTime |-> Str("2024-01-01T01:01:01.01Z")]}

MemberPayload == [displayName |-> Str("test-author"), uniqueName |-> Str("test-author"), id |-> Str("123")]

PullRequestPayloads ==
    {[pullRequestId |-> PyInt(i), title |-> Str("Test PR"), createdBy |-> Dict(MemberPayload),
      creationDate |-> Str("2021-08-01T00:00:00Z"), isDraft |-> Bool(FALSE)] : i \in {1, 2}}

Payloads(cls) ==
    CASE cls = "Repo" -> RepoPayloads
      [] cls = "Project" -> ProjectPayloads
      [] cls = "PullRequest" -> PullRequestPayloads

\* ------------------------------------------------------------ payload mappings

\* str.removeprefix("refs/heads/")
removeprefix_refs_heads(s) ==
    CASE s.v = "refs/heads/dev" -> Str("dev")
      [] s.v = "refs/heads/main" -> Str("main")
      [] OTHER -> s

\* dict.get(key, default)
get(data, key, default) == IF key \in DOMAIN data THEN data[key] ELSE default

\* utils.from_ado_date_string
from_ado_date_string(s) ==
    CASE s.t = "none" -> None
      [] s.v = "2021-08-01T00:00:00Z" -> Datetime("2021-08-01T00:00:00")
      [] s.v = "2024-01-01T01:01:01.01Z" -> Datetime("2024-01-01T01:01:01")
      [] OTHER -> Err("ValueError", "datetime", "bad date")

Repo_from_request_payload(data) ==
    IF ~({"id", "name"} \subseteq DOMAIN data)
    THEN Err("KeyError", "Repo", "missing key")
    ELSE Obj("Repo", [repo_id |-> data["id"],
                      name |-> data["name"],
                      default_branch |-> removeprefix_refs_heads(get(data, "defaultBranch", Str("main"))),
                      is_disabled |-> Bool(truthy(get(data, "isDisabled", Bool(FALSE))))])

Project_from_request_payload(data) ==
    IF ~({"id", "name"} \subseteq DOMAIN data)
    THEN Err("KeyError", "Project", "missing key")
    ELSE Obj("Project", [project_id |-> data["id"],
                         name |-> data["name"],
                         description |-> get(data, "description", Str("")),
                         last_update_time |-> get(data, "lastUpdateTime", None)])

Member_from_request_payload(data) ==
    IF ~({"displayName", "uniqueName", "id"} \subseteq DOMAIN data)
    THEN Err("KeyError", "Member", "missing key")
    ELSE Obj("Member", [name |-> data["displayName"], email |-> data["uniqueName"],
                        member_id |-> data["id"]])

PullRequest_from_request_payload(data) ==
    IF ~({"pullRequestId", "title", "createdBy", "creationDate", "isDraft"} \subseteq DOMAIN data)
    THEN Err("KeyError", "PullRequest", "missing key")
    ELSE Obj("PullRequest", [pull_request_id |-> Str(data["pullRequestId"].v),
                             title |-> data["title"],
                             author |-> Member_from_request_payload(data["createdBy"].v),
                             creation_date |-> from_ado_date_string(data["creationDate"]),
                             is_draft |-> data["isDraft"]])

\* cls.from_request_payload(data)
from_request_payload(cls, data) ==
    CASE cls = "Repo" -> Repo_from_request_payload(data)
      [] cls = "Project" -> Project_from_request_payload(data)
      [] cls = "PullRequest" -> PullRequest_from_request_payload(data)
      [] OTHER -> Err("NotImplementedError", cls, "")

\* ------------------------------------------------------------ the world a call acts on
\* w = [state, planned, events, inst]: the State Store, the plan list, what the
\* call has done so far (HTTP requests, State Store writes, prints, staged
\* changes, in order), and the instance a method is called on.

NoInst == [t |-> "noinst", v |-> ""]

Returned(value, w) == [outcome |-> "returned", value |-> value, w |-> w]
Raised(error, w) == [outcome |-> "raised", value |-> error, w |-> w]

emit(w, event) == [w EXCEPT !.events = Append(@, event)]

\* ado_client.session.<method>(url, ...): one request sent.
session_request(w, method, cls) == emit(w, <<"http", method, cls>>)

\* print(...): a diagnostic emitted.
print(w, text) == emit(w, <<"print", text>>)

\* ---------------------------------------------------------------- State Store

\* StateManager.add_resource_to_state
add_resource_to_state(w, kind, id, data) ==
    emit([w EXCEPT !.state = [k \in DOMAIN w.state \cup {<<kind, id>>} |->
                                  IF k = <<kind, id>> THEN data ELSE w.state[k]]],
         <<"state", "add", kind, id, data>>)

\* update_resource_in_state that keeps the entry it already holds for the key.
update_resource_in_state_keeps_existing(w, kind, id, data) ==
    emit([w EXCEPT !.state = [k \in DOMAIN w.state \cup {<<kind, id>>} |->
                                  IF k \in DOMAIN w.state THEN w.state[k] ELSE data]],
         <<"state", "update", kind, id, data>>)

\* StateManager.update_resource_in_state
update_resource_in_state(w, kind, id, data) ==
    emit([w EXCEPT !.state = [k \in DOMAIN w.state \cup {<<kind, id>>} |->
                                  IF k = <<kind, id>> THEN data ELSE w.state[k]]],
         <<"state", "update", kind, id, data>>)

\* StateManager.remove_resource_from_state
remove_resource_from_state(w, kind, id) ==
    emit([w EXCEPT !.state = [k \in DOMAIN w.state \ {<<kind, id>>} |-> w.state[k]]],
         <<"state", "remove", kind, id>>)

\* ---------------------------------------------------------------- plan mode

PlannedId == "planned"

\* The placeholder a planned create returns: resource-shaped, with no server id.
PlannedResource(cls) == [t |-> "planned", v |-> cls]

\* PlannedStateManagedResource.create
PlannedStateManagedResource_create(cls, payload, w) ==
    Returned(PlannedResource(cls),
             emit([w EXCEPT !.planned = Append(@, [kind |-> cls, operation |-> "create"])],
                  <<"plan", "create", cls>>))

\* PlannedStateManagedResource.update
PlannedStateManagedResource_update(attribute_name, attribute_value, params, w) ==
    Returned(None,
             emit([w EXCEPT !.planned = Append(@, [kind |-> w.inst.t, operation |-> "update"])],
                  <<"plan", "update", w.inst.t>>))

\* ---------------------------------------------------------------- lifecycle engine

\* StateManagedResource._get_by_id: not overridden by any type of the model.
_get_by_id(cls, ado_client, resource_id, w) ==
    Raised(Err("NotImplementedError", cls, ""), w)

\* _get_by_url with the 404 test after the test for 300 or more.
get_by_url_404_late(cls, ado_client, request, w) ==
    LET w1 == session_request(w, "get", cls)
    IN  IF request.status_code >= 300 THEN
            Raised(Err("ValueError", cls, request.text), w1)
        ELSE IF request.status_code = 404 THEN
            Raised(Err("ResourceNotFound", cls, ""), w1)
        ELSE IF "value" \in DOMAIN request.json THEN
            IF Len(request.json["value"]) = 0
            THEN Raised(Err("IndexError", cls, "list index out of range"), w1)
            ELSE LET resource == from_request_payload(cls, request.json["value"][1])
                 IN  IF IsErr(resource) THEN Raised(resource, w1) ELSE Returned(resource, w1)
        ELSE LET resource == from_request_payload(cls, request.json)
             IN  IF IsErr(resource) THEN Raised(resource, w1) ELSE Returned(resource, w1)

\* StateManagedResource._get_by_url
_get_by_url(cls, ado_client, request, w) ==
    LET w1 == session_request(w, "get", cls)
    IN  IF request.status_code = 404 THEN
            Raised(Err("ResourceNotFound", cls, ""), w1)
        ELSE IF request.status_code >= 300 THEN
            Raised(Err("ValueError", cls, request.text), w1)
        ELSE IF "value" \in DOMAIN request.json THEN
            IF Len(request.json["value"]) = 0
            THEN Raised(Err("IndexError", cls, "list index out of range"), w1)
            ELSE LET resource == from_request_payload(cls, request.json["value"][1])
                 IN  IF IsErr(resource) THEN Raised(resource, w1) ELSE Returned(resource, w1)
        ELSE LET resource == from_request_payload(cls, request.json)
             IN  IF IsErr(resource) THEN Raised(resource, w1) ELSE Returned(resource, w1)

\* create_error with 403 left out of the permission statuses.
create_error_401_only(cls, request) ==
    IF request.status_code = 401 THEN
        Err("InvalidPermissionsError", cls, request.text)
    ELSE IF request.status_code = 409 THEN
        Err("ResourceAlreadyExists", cls, "")
    ELSE
        Err("ValueError", cls, request.text)

\* The exception _create raises for a status of 300 or more.
create_error(cls, request) ==
    IF request.status_code \in {401, 403} THEN
        Err("InvalidPermissionsError", cls, request.text)
    ELSE IF request.status_code = 409 THEN
        Err("ResourceAlreadyExists", cls, "")
    ELSE
        Err("ValueError", cls, request.text)

\* store_created with the entry filed under the base class's name.
store_created_base_kind(cls, resource, w) ==
    Returned(resource,
             add_resource_to_state(w, "StateManagedResource", extract_id(resource),
                                   to_json(resource)))

\* The end of _create: the resource is written to the State Store under
\* (type name, id) and returned.
store_created(cls, resource, w) ==
    Returned(resource, add_resource_to_state(w, cls, extract_id(resource), to_json(resource)))

\* _create that looks at the status only after it has stored what it built.
create_checks_status_late(cls, ado_client, payload, refetch, request, w) ==
    IF ado_client.plan_mode THEN
        PlannedStateManagedResource_create(cls, payload, w)
    ELSE
        LET w1 == session_request(w, "post", cls)
            resource == from_request_payload(cls, request.json)
        IN  IF IsErr(resource) THEN
                IF request.status_code >= 300
                THEN Raised(create_error(cls, request), w1)
                ELSE Raised(resource, w1)
            ELSE
                LET fetched == IF refetch
                               THEN _get_by_id(cls, ado_client, extract_id(resource), w1)
                               ELSE Returned(resource, w1)
                IN  IF fetched.outcome = "raised" THEN fetched
                    ELSE IF request.status_code >= 300
                    THEN Raised(create_error(cls, request), store_created(cls, fetched.value, fetched.w).w)
                    ELSE store_created(cls, fetched.value, fetched.w)

\* StateManagedResource._create
_create(cls, ado_client, payload, refetch, request, w) ==
    IF ado_client.plan_mode THEN
        PlannedStateManagedResource_create(cls, payload, w)
    ELSE
        LET w1 == session_request(w, "post", cls)
        IN  IF request.status_code >= 300 THEN
                Raised(create_error(cls, request), w1)
            ELSE
                LET resource == from_request_payload(cls, request.json)
                IN  IF IsErr(resource) THEN Raised(resource, w1)
                    ELSE LET fetched == IF refetch
                                        THEN _get_by_id(cls, ado_client, extract_id(resource), w1)
                                        ELSE Returned(resource, w1)
                         IN  IF fetched.outcome = "raised" THEN fetched
                             ELSE store_created(cls, fetched.value, fetched.w)

\* deletion_accepted with 404 treated as any other failure.
deletion_accepted_204_only(request) == request.status_code = 204

\* The statuses after which _delete_by_id goes on to the State Store: 204, and
\* 404 (already deleted).
deletion_accepted(request) == request.status_code = 204 \/ request.status_code = 404

\* _delete_by_id with the test of suppress_warnings the wrong way round.
delete_by_id_warns_when_suppressed(cls, ado_client, resource_id, request, w) ==
    LET w1 == session_request(w, "delete", cls)
    IN  IF ~deletion_accepted(request) THEN
            IF "message" \in DOMAIN request.json
            THEN Raised(Err("DeletionFailed", cls, request.json["message"].v), w1)
            ELSE Raised(Err("DeletionFailed", cls, request.text), w1)
        ELSE
            LET w2 == IF request.status_code = 404 /\ ado_client.suppress_warnings
                      THEN print(w1, "Resource not found, probably already deleted, removing from state")
                      ELSE w1
            IN  Returned(None, remove_resource_from_state(w2, cls, resource_id))

\* _delete_by_id with the removal from the State Store inside the 404 branch.
delete_by_id_removes_on_404_only(cls, ado_client, resource_id, request, w) ==
    LET w1 == session_request(w, "delete", cls)
    IN  IF ~deletion_accepted(request) THEN
            IF "message" \in DOMAIN request.json
            THEN Raised(Err("DeletionFailed", cls, request.json["message"].v), w1)
            ELSE Raised(Err("DeletionFailed", cls, request.text), w1)
        ELSE IF request.status_code = 404 THEN
            LET w2 == IF ~ado_client.suppress_warnings
                      THEN print(w1, "Resource not found, probably already deleted, removing from state")
                      ELSE w1
            IN  Returned(None, remove_resource_from_state(w2, cls, resource_id))
        ELSE Returned(None, w1)

\* _delete_by_id that plan mode intercepts as it does create and update.
delete_by_id_planned(cls, ado_client, resource_id, request, w) ==
    IF ado_client.plan_mode THEN
        Returned(None, emit([w EXCEPT !.planned = Append(@, [kind |-> cls, operation |-> "delete"])],
                            <<"plan", "delete", cls>>))
    ELSE
        LET w1 == session_request(w, "delete", cls)
        IN  IF ~deletion_accepted(request) THEN
                IF "message" \in DOMAIN request.json
                THEN Raised(Err("DeletionFailed", cls, request.json["message"].v), w1)
                ELSE Raised(Err("DeletionFailed", cls, request.text), w1)
            ELSE
                LET w2 == IF request.status_code = 404 /\ ~ado_client.suppress_warnings
                          THEN print(w1, "Resource not found, probably already deleted, removing from state")
                          ELSE w1
                IN  Returned(None, remove_resource_from_state(w2, cls, resource_id))

\* StateManagedResource._delete_by_id
_delete_by_id(cls, ado_client, resource_id, request, w) ==
    LET w1 == session_request(w, "delete", cls)
    IN  IF ~deletion_accepted(request) THEN
            IF "message" \in DOMAIN request.json
            THEN Raised(Err("DeletionFailed", cls, request.json["message"].v), w1)
            ELSE Raised(Err("DeletionFailed", cls, request.text), w1)
        ELSE
            LET w2 == IF request.status_code = 404 /\ ~ado_client.suppress_warnings
                      THEN print(w1, "Resource not found, probably already deleted, removing from state")
                      ELSE w1
            IN  Returned(None, remove_resource_from_state(w2, cls, resource_id))

\* setattr(self, attribute_name, attribute_value)
setattr(self, attribute_name, attribute_value) ==
    [self EXCEPT !.v = [f \in DOMAIN self.v \cup {attribute_name} |->
                            IF f = attribute_name THEN attribute_value ELSE self.v[f]]]

\* send_update writing the encoding taken before the attribute is set.
send_update_stale(update_action, attribute_name, attribute_value, params, request, w) ==
    LET self == w.inst
        w1 == session_request(w, update_action, self.t)
    IN  IF request.status_code # 200 THEN
            Raised(Err("UpdateFailed", self.t, request.text), w1)
        ELSE
            LET w2 == [w1 EXCEPT !.inst = setattr(self, attribute_name, attribute_value)]
            IN  Returned(None,
                         update_resource_in_state(w2, self.t, extract_id(w2.inst),
                                                  to_json(self)))

\* send_update setting the attribute before it looks at the status.
send_update_eager(update_action, attribute_name, attribute_value, params, request, w) ==
    LET self == w.inst
        w1 == session_request(w, update_action, self.t)
        w2 == [w1 EXCEPT !.inst = setattr(self, attribute_name, attribute_value)]
    IN  IF request.status_code # 200 THEN
            Raised(Err("UpdateFailed", self.t, request.text), w2)
        ELSE
            Returned(None,
                     update_resource_in_state(w2, self.t, extract_id(w2.inst),
                                              to_json(w2.inst)))

\* The end of _update, on w.inst: the request is sent; on 200 the attribute is
\* set and the instance written to the State Store.
send_update(update_action, attribute_name, attribute_value, params, request, w) ==
    LET self == w.inst
        w1 == session_request(w, update_action, self.t)
    IN  IF request.status_code # 200 THEN
            Raised(Err("UpdateFailed", self.t, request.text), w1)
        ELSE
            LET w2 == [w1 EXCEPT !.inst = setattr(self, attribute_name, attribute_value)]
            IN  Returned(None,
                         update_resource_in_state(w2, self.t, extract_id(w2.inst),
                                                  to_json(w2.inst)))

\* _update that consults plan mode before it validates the attribute name.
update_plans_before_validating(ado_client, update_action, attribute_name, attribute_value, params, request, w) ==
    LET self == w.inst
        interal_names == get_internal_field_names(self.t)
    IN  IF ado_client.plan_mode THEN
            PlannedStateManagedResource_update(attribute_name, attribute_value, params, w)
        ELSE IF attribute_name \notin DOMAIN interal_names THEN
            Raised(Err("ValueError", self.t, DOMAIN interal_names), w)
        ELSE
            send_update(update_action, attribute_name, attribute_value,
                        (interal_names[attribute_name] :> attribute_value) @@ params, request, w)

\* _update validating the attribute name after the request has been made.
update_validates_late(ado_client, update_action, attribute_name, attribute_value, params, request, w) ==
    LET self == w.inst
        interal_names == get_internal_field_names(self.t)
        done == IF ado_client.plan_mode
                THEN PlannedStateManagedResource_update(attribute_name, attribute_value, params, w)
                ELSE send_update(update_action, attribute_name, attribute_value, params, request, w)
    IN  IF attribute_name \notin DOMAIN interal_names
        THEN Raised(Err("ValueError", self.t, DOMAIN interal_names), done.w)
        ELSE done

\* StateManagedResource._update, called on w.inst
_update(ado_client, update_action, attribute_name, attribute_value, params, request, w) ==
    LET self == w.inst
        interal_names == get_internal_field_names(self.t)
    IN  IF attribute_name \notin DOMAIN interal_names THEN
            Raised(Err("ValueError", self.t, DOMAIN interal_names), w)
        ELSE
            LET merged == (interal_names[attribute_name] :> attribute_value) @@ params
            IN  IF ado_client.plan_mode THEN
                    PlannedStateManagedResource_update(attribute_name, attribute_value, merged, w)
                ELSE
                    send_update(update_action, attribute_name, attribute_value, merged, request, w)

\* _get_all with the status test one off: 300 is let through.
get_all_above_300(cls, ado_client, request, w) ==
    LET w1 == session_request(w, "get", cls)
    IN  IF request.status_code > 300 THEN
            Raised(Err("ValueError", cls, request.text), w1)
        ELSE IF "value" \notin DOMAIN request.json THEN
            Raised(Err("KeyError", cls, "value"), w1)
        ELSE
            LET resources == [i \in DOMAIN request.json["value"] |->
                                  from_request_payload(cls, request.json["value"][i])]
                bad == {i \in DOMAIN resources : IsErr(resources[i])}
            IN  IF bad # {}
                THEN Raised(resources[CHOOSE i \in bad : \A j \in bad : i <= j], w1)
                ELSE Returned(resources, w1)

\* StateManagedResource._get_all
_get_all(cls, ado_client, request, w) ==
    LET w1 == session_request(w, "get", cls)
    IN  IF request.status_code >= 300 THEN
            Raised(Err("ValueError", cls, request.text), w1)
        ELSE IF "value" \notin DOMAIN request.json THEN
            Raised(Err("KeyError", cls, "value"), w1)
        ELSE
            LET resources == [i \in DOMAIN request.json["value"] |->
                                  from_request_payload(cls, request.json["value"][i])]
                bad == {i \in DOMAIN resources : IsErr(resources[i])}
            IN  IF bad # {}
                THEN Raised(resources[CHOOSE i \in bad : \A j \in bad : i <= j], w1)
                ELSE Returned(resources, w1)

\* cls.get_all(ado_client), for the types of the model that have one.
get_all(cls, ado_client, request, w) == _get_all(cls, ado_client, request, w)

RECURSIVE first_match(_, _, _)
\* The loop of _get_by_abstract_filter over resources[i..]; func is the
\* caller's predicate, a function from resources to booleans.
first_match(resources, func, i) ==
    IF i > Len(resources) THEN None
    ELSE IF func[resources[i]] THEN resources[i]
    ELSE first_match(resources, func, i + 1)

RECURSIVE last_match(_, _, _)
last_match(resources, func, i) ==
    IF i < 1 THEN None
    ELSE IF func[resources[i]] THEN resources[i]
    ELSE last_match(resources, func, i - 1)

\* _get_by_abstract_filter that keeps looking after the first match.
get_by_abstract_filter_last(cls, ado_client, func, request, w) ==
    LET resources == get_all(cls, ado_client, request, w)
    IN  IF resources.outcome = "raised" THEN resources
        ELSE Returned(last_match(resources.value, func, Len(resources.value)), resources.w)

\* StateManagedResource._get_by_abstract_filter
_get_by_abstract_filter(cls, ado_client, func, request, w) ==
    LET resources == get_all(cls, ado_client, request, w)
    IN  IF resources.outcome = "raised" THEN resources
        ELSE Returned(first_match(resources.value, func, 1), resources.w)

\* ---------------------------------------------------------------- Repo and its collaborators

\* Attribute access on what a create returned: a resource, or the planned placeholder.
getattr(object, name) == IF object.t = "planned" THEN Str(PlannedId) ELSE object.v[name]

\* Commit.add_initial_readme: pushes a first commit holding README.md.
add_initial_readme(ado_client, repo_id, request, w) ==
    LET w1 == session_request(w, "post", "Commit")
    IN  IF request.status_code >= 300
        THEN Raised(Err("UnknownError", "Commit", request.text), w1)
        ELSE Returned(None, w1)

\* PullRequest.get_all_by_repo_id
get_all_by_repo_id(ado_client, repo_id, status, request, w) ==
    _get_all("PullRequest", ado_client, request, w)

\* Repo.get_all_pull_requests
get_all_pull_requests(ado_client, repo_id, status, request, w) ==
    get_all_by_repo_id(ado_client, repo_id, status, request, w)

\* Repo.get_by_id
Repo_get_by_id(ado_client, repo_id, request, w) ==
    _get_by_url("Repo", ado_client, request, w)

\* Repo.get_all
Repo_get_all(ado_client, request, w) == _get_all("Repo", ado_client, request, w)

\* The resources a listing of cls can hold.
Listable(cls) == {r \in {from_request_payload(cls, p) : p \in Payloads(cls)} : ~IsErr(r)}

\* Repo.get_by_name
Repo_get_by_name(ado_client, repo_name, request, w) ==
    _get_by_abstract_filter("Repo", ado_client,
                            [repo \in Listable("Repo") |-> repo.v["name"].v = repo_name],
                            request, w)

\* Repo.create
Repo_create(ado_client, name, include_readme, request, readme_request, w) ==
    LET repo == _create("Repo", ado_client, [name |-> Str(name)], FALSE, request, w)
    IN  IF repo.outcome = "raised" THEN repo
        ELSE IF include_readme THEN
            LET commit == add_initial_readme(ado_client, getattr(repo.value, "repo_id"),
                                             readme_request, repo.w)
            IN  IF commit.outcome = "raised" THEN commit ELSE Returned(repo.value, commit.w)
        ELSE repo

\* Repo.update, called on w.inst
Repo_update(ado_client, attribute_name, attribute_value, request, w) ==
    _update(ado_client, "patch", attribute_name, attribute_value, <<>>, request, w)

\* remove_pull_requests that stops after the first pull request.
remove_first_pull_request(w, pull_requests, i) ==
    IF i > Len(pull_requests) THEN w
    ELSE remove_resource_from_state(w, "PullRequest", extract_id(pull_requests[i]))

RECURSIVE remove_pull_requests(_, _, _)
\* The loop of Repo.delete_by_id over pull_requests[i..]
remove_pull_requests(w, pull_requests, i) ==
    IF i > Len(pull_requests) THEN w
    ELSE remove_pull_requests(
             remove_resource_from_state(w, "PullRequest", extract_id(pull_requests[i])),
             pull_requests, i + 1)

\* Repo.delete_by_id
Repo_delete_by_id(ado_client, repo_id, pr_request, request, w) ==
    LET pull_requests == get_all_pull_requests(ado_client, repo_id, "all", pr_request, w)
    IN  IF pull_requests.outcome = "raised" THEN pull_requests
        ELSE _delete_by_id("Repo", ado_client, repo_id, request,
                           remove_pull_requests(pull_requests.w, pull_requests.value, 1))

\* Repo.delete that goes on to the deletion whatever became of the update.
Repo_delete_despite_failed_update(ado_client, update_request, pr_request, request, w) ==
    IF truthy(w.inst.v["is_disabled"]) THEN
        LET updated == Repo_update(ado_client, "is_disabled", Bool(FALSE), update_request, w)
        IN  Repo_delete_by_id(ado_client, extract_id(updated.w.inst), pr_request, request,
                              updated.w)
    ELSE Repo_delete_by_id(ado_client, extract_id(w.inst), pr_request, request, w)

\* Repo.delete, called on w.inst
Repo_delete(ado_client, update_request, pr_request, request, w) ==
    IF truthy(w.inst.v["is_disabled"]) THEN
        LET updated == Repo_update(ado_client, "is_disabled", Bool(FALSE), update_request, w)
        IN  IF updated.outcome = "raised" THEN updated
            ELSE Repo_delete_by_id(ado_client, extract_id(updated.w.inst), pr_request, request,
                                   updated.w)
    ELSE Repo_delete_by_id(ado_client, extract_id(w.inst), pr_request, request, w)

\* ---------------------------------------------------------------- inputs of the calls

\* Answers whose body no handler reads on success.
PlainResponses == {Response(s, "body", <<>>) : s \in OkStatuses} \cup Refusals

\* Answers to Commit.add_initial_readme's push.
ReadmeResponses == {Response(200, "body", <<>>), Response(500, "boom", <<>>)}

\* Answers to a GET of one resource: a bare payload, or { "value": [...] }.
OneResponses(cls) ==
    Responses(Payloads(cls))
    \cup {Response(200, "body", [value |-> <<>>])}
    \cup {Response(200, "body", [value |-> <<p, q>>]) : p \in Payloads(cls), q \in Payloads(cls)}

PullRequestLists ==
    {<<>>} \cup {<<p>> : p \in PullRequestPayloads}
    \cup {<<p, q>> : <<p, q>> \in {pq \in PullRequestPayloads \X PullRequestPayloads : pq[1] # pq[2]}}

\* Answers to the listing of a repo's pull requests.
PullRequestListResponses ==
    {Response(200, "body", [value |-> l]) : l \in PullRequestLists}
    \cup {Response(500, "boom", <<>>)}

\* Listings of repositories: up to MaxListLen payloads.
RepoLists == UNION {[1..n -> RepoPayloads] : n \in 0..MaxListLen}

\* Answers to the listing of the repositories: a list under "value", a body
\* without "value", or a refusal.
RepoListResponses ==
    {Response(200, "body", [value |-> l]) : l \in RepoLists}
    \cup {Response(200, "body", <<>>)}
    \cup Refusals

\* The ids of the pull requests a listing answers with.
ListedIds(pr_request) ==
    IF "value" \in DOMAIN pr_request.json
    THEN {pr_request.json["value"][i]["pullRequestId"].v : i \in DOMAIN pr_request.json["value"]}
    ELSE {}

\* Attribute names and values a caller passes to update.
AttributeNames == {"name", "default_branch", "is_disabled", "repo_id", "description", "bogus"}
AttributeValues(attribute_name) ==
    CASE attribute_name = "name" -> {Str("b")}
      [] attribute_name = "default_branch" -> {Str("dev")}
      [] attribute_name = "is_disabled" -> {Bool(TRUE), Bool(FALSE)}
      [] OTHER -> {Str("b")}

\* Types whose callers are the generic engine's methods themselves.
GenericClasses == {"Project", "PullRequest"}

\* ---------------------------------------------------------------- the calls

AdoClient == [plan_mode |-> plan_mode, suppress_warnings |-> suppress_warnings]

\* The world at the start of a call.
World == [state |-> state, planned |-> planned, events |-> <<>>, inst |-> inst]

\* A call ends: its effects become the state, and the call is recorded.
Finish(op, cls, arg, r, held) ==
    /\ state' = r.w.state
    /\ planned' = r.w.planned
    /\ inst' = held
    /\ call' = [op |-> op, cls |-> cls, arg |-> arg,
                outcome |-> r.outcome, value |-> r.value, events |-> r.w.events,
                pre |-> [state |-> state, planned |-> planned, inst |-> inst]]
    /\ ncalls' = ncalls + 1
    /\ UNCHANGED <<plan_mode, suppress_warnings, phase, original, encoded, decoded, reencoded, target, audit>>

\* What the caller holds after a call that returns a resource: the resource
\* returned, else what it held before.
Held(r) == IF r.outcome = "returned" /\ r.value.t \in {"Repo", "Project"} THEN r.value ELSE inst

RepoCreate ==
    /\ call.op = "none"
    /\ ncalls < MaxCalls
    /\ \E name \in {"a"}, include_readme \in BOOLEAN,
          request \in Responses(RepoPayloads), readme_request \in ReadmeResponses :
          LET r == Repo_create(AdoClient, name, include_readme, request, readme_request, World)
          IN  Finish("Repo.create", "Repo",
                     [include_readme |-> include_readme, refetch |-> FALSE,
                      status_code |-> request.status_code, text |-> request.text,
                      json |-> request.json, readme_status_code |-> readme_request.status_code],
                     r, Held(r))

RepoGetById ==
    /\ call.op = "none"
    /\ ncalls < MaxCalls
    /\ \E repo_id \in Ids, request \in OneResponses("Repo") :
          LET r == Repo_get_by_id(AdoClient, repo_id, request, World)
          IN  Finish("Repo.get_by_id", "Repo",
                     [resource_id |-> repo_id, status_code |-> request.status_code,
                      text |-> request.text, json |-> request.json],
                     r, Held(r))

\* The result of a call that returns a list, as the caller sees it.
ListResult(r) == IF r.outcome = "returned" THEN [r EXCEPT !.value = List(r.value)] ELSE r

RepoGetAll ==
    /\ call.op = "none"
    /\ ncalls < MaxCalls
    /\ \E request \in RepoListResponses :
          LET r == ListResult(Repo_get_all(AdoClient, request, World))
          IN  Finish("Repo.get_all", "Repo",
                     [status_code |-> request.status_code, text |-> request.text,
                      json |-> request.json],
                     r, inst)

RepoGetByName ==
    /\ call.op = "none"
    /\ ncalls < MaxCalls
    /\ \E repo_name \in Names \cup {"c"}, request \in RepoListResponses :
          LET r == Repo_get_by_name(AdoClient, repo_name, request, World)
          IN  Finish("Repo.get_by_name", "Repo",
                     [repo_name |-> repo_name, status_code |-> request.status_code,
                      text |-> request.text, json |-> request.json],
                     r, Held(r))

RepoUpdate ==
    /\ call.op = "none"
    /\ ncalls < MaxCalls
    /\ inst.t = "Repo"
    /\ \E attribute_name \in AttributeNames, request \in PlainResponses :
       \E attribute_value \in AttributeValues(attribute_name) :
          LET r == Repo_update(AdoClient, attribute_name, attribute_value, request, World)
          IN  Finish("Repo.update", "Repo",
                     [attribute_name |-> attribute_name, attribute_value |-> attribute_value,
                      status_code |-> request.status_code, text |-> request.text],
                     r, r.w.inst)

RepoDeleteById ==
    /\ call.op = "none"
    /\ ncalls < MaxCalls
    /\ \E repo_id \in Ids, pr_request \in PullRequestListResponses, request \in PlainResponses :
          LET r == Repo_delete_by_id(AdoClient, repo_id, pr_request, request, World)
          IN  Finish("Repo.delete_by_id", "Repo",
                     [resource_id |-> repo_id, status_code |-> request.status_code,
                      text |-> request.text, json |-> request.json,
                      pr_status_code |-> pr_request.status_code,
                      pull_request_ids |-> ListedIds(pr_request)],
                     r, r.w.inst)

RepoDelete ==
    /\ call.op = "none"
    /\ ncalls < MaxCalls
    /\ inst.t = "Repo"
    /\ \E update_request \in ReadmeResponses, pr_request \in PullRequestListResponses,
          request \in PlainResponses :
          LET r == Repo_delete(AdoClient, update_request, pr_request, request, World)
          IN  Finish("Repo.delete", "Repo",
                     [resource_id |-> extract_id(inst), status_code |-> request.status_code,
                      text |-> request.text, json |-> request.json,
                      pr_status_code |-> pr_request.status_code,
                      pull_request_ids |-> ListedIds(pr_request),
                      update_status_code |-> update_request.status_code],
                     r, r.w.inst)

Create ==
    /\ call.op = "none"
    /\ ncalls < MaxCalls
    /\ \E cls \in GenericClasses, refetch \in BOOLEAN :
       \E request \in Responses(Payloads(cls)) :
          LET r == _create(cls, AdoClient, <<>>, refetch, request, World)
          IN  Finish("_create", cls,
                     [include_readme |-> FALSE, refetch |-> refetch,
                      status_code |-> request.status_code, text |-> request.text,
                      json |-> request.json, readme_status_code |-> 0],
                     r, Held(r))

GetByUrl ==
    /\ call.op = "none"
    /\ ncalls < MaxCalls
    /\ \E resource_id \in Ids, request \in OneResponses("Project") :
          LET r == _get_by_url("Project", AdoClient, request, World)
          IN  Finish("_get_by_url", "Project",
                     [resource_id |-> resource_id, status_code |-> request.status_code,
                      text |-> request.text, json |-> request.json],
                     r, Held(r))

Update ==
    /\ call.op = "none"
    /\ ncalls < MaxCalls
    /\ inst.t = "Project"
    /\ \E attribute_name \in AttributeNames, request \in ReadmeResponses,
          update_action \in {"put", "patch"} :
       \E attribute_value \in AttributeValues(attribute_name) :
          LET r == _update(AdoClient, update_action, attribute_name, attribute_value, <<>>,
                           request, World)
          IN  Finish("_update", "Project",
                     [attribute_name |-> attribute_name, attribute_value |-> attribute_value,
                      status_code |-> request.status_code, text |-> request.text],
                     r, r.w.inst)

DeleteById ==
    /\ call.op = "none"
    /\ ncalls < MaxCalls
    /\ \E cls \in GenericClasses, resource_id \in Ids, request \in PlainResponses :
          LET r == _delete_by_id(cls, AdoClient, resource_id, request, World)
          IN  Finish("_delete_by_id", cls,
                     [resource_id |-> resource_id, status_code |-> request.status_code,
                      text |-> request.text, json |-> request.json,
                      pr_status_code |-> 0, pull_request_ids |-> {}],
                     r, r.w.inst)

NoCall == [op |-> "none", cls |-> "", arg |-> <<>>, outcome |-> "returned", value |-> None,
           events |-> <<>>, pre |-> [state |-> <<>>, planned |-> <<>>, inst |-> NoInst]]

\* No AuditLog.get_all is in progress.
AuditIdle == [pc |-> "idle"]

CodecIdle ==
    /\ phase = "idle"
    /\ original = None
    /\ encoded = None
    /\ decoded = None
    /\ reencoded = None
    /\ target = ""

\* The client after construction: the flags as the caller set them, an empty
\* State Store and plan list, no call made.
Init ==
    /\ plan_mode \in BOOLEAN
    /\ suppress_warnings \in BOOLEAN
    /\ state = <<>>
    /\ planned = <<>>
    /\ inst = NoInst
    /\ call = NoCall
    /\ ncalls = 0
    /\ CodecIdle
    /\ audit = AuditIdle

\* The caller has taken the result or the exception of the last call: the
\* record of the call is dropped, the client is ready for the next one.
CallReturns ==
    /\ call.op # "none"
    /\ call' = NoCall
    /\ UNCHANGED <<plan_mode, suppress_warnings, state, planned, inst, ncalls,
                   phase, original, encoded, decoded, reencoded, target, audit>>

\* Between two calls the caller switches the client's plan flag.
SetPlanMode ==
    /\ call.op = "none"
    /\ plan_mode' = ~plan_mode
    /\ UNCHANGED <<suppress_warnings, state, planned, inst, call, ncalls,
                   phase, original, encoded, decoded, reencoded, target, audit>>

Next ==
    \/ RepoCreate
    \/ RepoGetById
    \/ RepoUpdate
    \/ RepoDeleteById
    \/ RepoDelete
    \/ Create
    \/ GetByUrl
    \/ Update
    \/ DeleteById
    \/ CallReturns

Spec == Init /\ [][Next]_vars

\* A client that creates resources and lists the repositories.
NextListing ==
    \/ RepoCreate
    \/ Create
    \/ RepoGetAll
    \/ RepoGetByName
    \/ CallReturns

SpecListing == Init /\ [][NextListing]_vars

\* A client that creates and deletes resources and switches its plan flag.
NextPlan ==
    \/ SetPlanMode
    \/ RepoCreate
    \/ Create
    \/ RepoDeleteById
    \/ RepoDelete
    \/ DeleteById
    \/ CallReturns

SpecPlan == Init /\ [][NextPlan]_vars

\* ---------------------------------------------------------------- codec runs
\* A run encodes one resource and decodes the result.

Member1 == Obj("Member", [name |-> Str("test-author"), email |-> Str("test-author"),
                          member_id |-> Str("123")])

\* Values of Environment.resources: lists of mappings.
ResourceLists ==
    {[i \in 1..n |-> Dict([id |-> PyInt(i), name |-> Str("vm")])] : n \in 0..MaxListLen}
    \cup {<<Dict([name |-> Str("vm"), owner |-> Member1])>>,
          <<Dict([name |-> Str("vm"), linked_on |-> Datetime("2021-08-01T00:00:00")])>>}

\* The resources from_request_payload builds from the payloads of the stub.
PayloadBuilt ==
    {r \in {from_request_payload(cp[1], cp[2]) : cp \in
                {cp \in {"Repo", "Project", "PullRequest"} \X
                        (RepoPayloads \cup ProjectPayloads \cup PullRequestPayloads) :
                    cp[2] \in Payloads(cp[1])}} :
        ~IsErr(r)}

CodecInputs ==
    PayloadBuilt \cup
    {Obj("Repo", [repo_id |-> Str(i), name |-> Str(n), default_branch |-> Str(b),
                  is_disabled |-> Bool(d)]) :
        i \in Ids, n \in Names, b \in {"main", "dev"}, d \in BOOLEAN}
    \cup {Obj("Project", [project_id |-> Str(i), name |-> Str("a"), description |-> Str("d"),
                          last_update_time |-> t]) :
        i \in Ids, t \in {None, Str("2024-01-01T01:01:01.01Z"), Str("2024-01-01T01:01:01"),
                           Datetime("2024-01-01T01:01:01")}}
    \cup {Member1}
    \cup {Obj("PullRequest", [pull_request_id |-> Str(i), title |-> Str("Test PR"),
                              author |-> Member1, creation_date |-> Datetime(t),
                              is_draft |-> Bool(d)]) :
        i \in Ids, t \in IsoTexts, d \in BOOLEAN}
    \cup {Obj("Environment", [environment_id |-> Str(i), name |-> Str("a"),
                              description |-> Str("d"), resources |-> List(l),
                              created_by |-> Member1,
                              created_on |-> Datetime("2021-08-01T00:00:00"),
                              modified_by |-> m, modified_on |-> t]) :
        i \in Ids, l \in ResourceLists, m \in {None, Member1},
        t \in {None, Datetime("2024-01-01T01:01:01")}}

LifecycleIdle ==
    /\ plan_mode = FALSE
    /\ suppress_warnings = FALSE
    /\ state = <<>>
    /\ planned = <<>>
    /\ inst = NoInst
    /\ call = NoCall
    /\ ncalls = 0

\* A JSON tree without the entry under key.
DropKey(tree, key) == Dict([k \in DOMAIN tree.v \ {key} |-> tree.v[k]])

\* A JSON tree whose entry under key is `value`.
WithEntry(tree, key, value) ==
    Dict([k \in DOMAIN tree.v \cup {key} |-> IF k = key THEN value ELSE tree.v[k]])

\* The keys of a JSON tree that are marked with a resource type.
ResourceKeys(tree) == {k \in DOMAIN tree.v : k.tag \notin {"", "datetime"}}

\* JSON trees read back from a state file, each with the class it is decoded
\* into: encodings as written, and encodings that lost an entry, that carry the
\* marker of a type the registry does not know, or whose nested resource lost
\* an entry.
StoredTrees ==
    LET written == {<<r.t, to_json(r)>> : r \in PayloadBuilt}
    IN  written
        \cup {<<ct[1], DropKey(ct[2], k)>> :
                 ct \in written, k \in UNION {DOMAIN c[2].v : c \in written}}
        \cup {<<ct[1], WithEntry(ct[2], Key("team", "Team"), Dict(<<>>))>> : ct \in written}
        \cup {<<ct[1], WithEntry(ct[2], Key("author", "Reviewer"), Dict(<<>>))>> : ct \in written}
        \cup {<<ct[1], WithEntry(ct[2], Key("author", "Member"),
                                DropKey(to_json(Member1), Key("email", "")))>> :
                 ct \in {c \in written : c[1] = "PullRequest"}}

\* A run starts from a resource to encode, or from a stored tree to decode.
CodecInit ==
    /\ \/ /\ phase = "start"
          /\ original \in CodecInputs
          /\ encoded = None
          /\ target = original.t
       \/ /\ phase = "encoded"
          /\ original = None
          /\ \E ct \in StoredTrees : target = ct[1] /\ encoded = ct[2]
    /\ decoded = None
    /\ reencoded = None
    /\ LifecycleIdle
    /\ audit = AuditIdle

Encode ==
    /\ phase = "start"
    /\ encoded' = to_json(original)
    /\ phase' = "encoded"
    /\ UNCHANGED <<original, decoded, reencoded, target, lifecycle_vars, audit>>

Decode ==
    /\ phase = "encoded"
    /\ decoded' = from_json(target, encoded)
    /\ phase' = "decoded"
    /\ UNCHANGED <<original, encoded, reencoded, target, lifecycle_vars, audit>>

\* The decoded resource is encoded again (an exception of the decode stays one).
Reencode ==
    /\ phase = "decoded"
    /\ reencoded' = IF IsErr(decoded) THEN decoded ELSE to_json(decoded)
    /\ phase' = "reencoded"
    /\ UNCHANGED <<original, encoded, decoded, target, lifecycle_vars, audit>>

CodecNext ==
    \/ Encode
    \/ Decode
    \/ Reencode

SpecCodec == CodecInit /\ [][CodecNext]_vars

\* ---------------------------------------------------------------- properties
\* Each is about the last call: its inputs and outcome (call), the state before
\* it (call.pre) and the state after it (the variables).

CreateOps == {"Repo.create", "_create"}
UpdateOps == {"Repo.update", "_update"}
DeleteByIdOps == {"Repo.delete_by_id", "_delete_by_id"}
GetOps == {"Repo.get_by_id", "_get_by_url"}

\* Positions in the call's events of its HTTP requests and State Store writes.
HttpEvents == {i \in DOMAIN call.events : call.events[i][1] = "http"}
StateEvents == {i \in DOMAIN call.events : call.events[i][1] = "state"}
Sent(method) == \E i \in HttpEvents : call.events[i][2] = method

Editable(cls) == DOMAIN get_internal_field_names(cls)

\* C1: in normal mode, a create whose POST answers below 300 and which returns
\* leaves in the State Store, under (type name, id of the returned resource),
\* the JSON encoding of the resource it returns.
C1_CreateStoresReturned ==
    (/\ call.op \in CreateOps
     /\ ~plan_mode
     /\ call.arg.status_code < 300
     /\ call.outcome = "returned")
    => /\ <<call.cls, extract_id(call.value)>> \in DOMAIN state
       /\ state[<<call.cls, extract_id(call.value)>>] = to_json(call.value)

C1_Witness ==
    /\ call.op = "Repo.create"
    /\ ~plan_mode
    /\ call.arg.status_code < 300
    /\ call.outcome = "returned"
    /\ call.value.v["is_disabled"] = Bool(TRUE)
    /\ <<"Repo", extract_id(call.value)>> \notin DOMAIN call.pre.state

\* C2: in plan mode no create and no update call sends an HTTP request or
\* writes to the State Store.
C2_PlanModeIsolation ==
    (plan_mode /\ call.op \in CreateOps \cup UpdateOps)
    => /\ HttpEvents = {}
       /\ StateEvents = {}
       /\ state = call.pre.state

\* C3: an update naming an attribute that is not editable raises the error that
\* lists the editable names, sends no request, and leaves the instance and
\* the State Store as they were.
C3_InvalidAttributeRejected ==
    (call.op \in UpdateOps /\ call.arg.attribute_name \notin Editable(call.cls))
    => /\ call.outcome = "raised"
       /\ call.value.v = "ValueError"
       /\ call.value.detail = Editable(call.cls)
       /\ HttpEvents = {}
       /\ inst = call.pre.inst
       /\ state = call.pre.state

C3_Witness ==
    /\ call.op = "Repo.update"
    /\ ~plan_mode
    /\ call.arg.attribute_name = "repo_id"
    /\ call.outcome = "raised"
    /\ DOMAIN state # {}

\* C4: when the DELETE of a delete_by_id answers 404, the call returns and the
\* entry (type name, resource_id) is not in the State Store.
C4_DeleteIdempotentOn404 ==
    (call.op \in DeleteByIdOps /\ Sent("delete") /\ call.arg.status_code = 404)
    => /\ call.outcome = "returned"
       /\ <<call.cls, call.arg.resource_id>> \notin DOMAIN state

C4_Witness ==
    /\ call.op \in DeleteByIdOps
    /\ Sent("delete")
    /\ call.arg.status_code = 404
    /\ <<call.cls, call.arg.resource_id>> \in DOMAIN call.pre.state
    /\ call.outcome = "returned"

\* C5: when the DELETE of a delete_by_id answers neither 204 nor 404, the call
\* raises DeletionFailed and the State Store is as it was before the call.
C5_FailedDeleteLeavesStore ==
    (call.op \in DeleteByIdOps /\ Sent("delete") /\ call.arg.status_code \notin {204, 404})
    => /\ call.outcome = "raised"
       /\ call.value.v = "DeletionFailed"
       /\ state = call.pre.state

\* C6: decoding the encoding of a resource gives back the resource, field by field.
C6_RoundTrip ==
    (phase = "decoded" /\ original.t \in get_resource_variables) => decoded = original

\* C7: a fetch of one resource answered 404 raises ResourceNotFound naming the
\* type; answered any other status of 300 or more it raises the request error
\* carrying the response body; either way nothing is returned and the State
\* Store is not touched.
C7_FetchOneClassifiesErrors ==
    (call.op \in GetOps /\ call.arg.status_code >= 300)
    => /\ call.outcome = "raised"
       /\ call.arg.status_code = 404
            => call.value.v = "ResourceNotFound" /\ call.value.cls = call.cls
       /\ call.arg.status_code # 404
            => call.value.v = "ValueError" /\ call.value.detail = call.arg.text
       /\ StateEvents = {}
       /\ state = call.pre.state
       /\ inst = call.pre.inst

C7_Witness ==
    /\ call.op \in GetOps
    /\ call.arg.status_code = 404
    /\ call.outcome = "raised"
    /\ DOMAIN state # {}

\* C8: in normal mode a create whose POST answers 300 or more raises
\* InvalidPermissionsError for 401 and 403, ResourceAlreadyExists for 409, and
\* the request error for every other status.
C8_CreateClassifiesErrors ==
    (call.op \in CreateOps /\ ~plan_mode /\ call.arg.status_code >= 300)
    => /\ call.outcome = "raised"
       /\ call.arg.status_code \in {401, 403} => call.value.v = "InvalidPermissionsError"
       /\ call.arg.status_code = 409 => call.value.v = "ResourceAlreadyExists"
       /\ call.arg.status_code \notin {401, 403, 409} => call.value.v = "ValueError"

C8_Witness ==
    /\ call.op \in CreateOps
    /\ ~plan_mode
    /\ call.arg.status_code = 403
    /\ call.outcome = "raised"

\* C9: in normal mode an update of an editable attribute answered 200 sets the
\* attribute on the instance and puts the encoding of the changed instance in
\* the State Store under (type name, instance id), writing the State Store
\* only after the request.
C9_UpdateAppliesOn200 ==
    (/\ call.op \in UpdateOps
     /\ ~plan_mode
     /\ call.arg.attribute_name \in Editable(call.cls)
     /\ call.arg.status_code = 200)
    => /\ call.outcome = "returned"
       /\ inst.v[call.arg.attribute_name] = call.arg.attribute_value
       /\ <<call.cls, extract_id(call.pre.inst)>> \in DOMAIN state
       /\ state[<<call.cls, extract_id(call.pre.inst)>>] = to_json(inst)
       /\ HttpEvents # {}
       /\ \A i \in StateEvents : \A j \in HttpEvents : j < i

C9_Witness ==
    /\ call.op \in UpdateOps
    /\ ~plan_mode
    /\ call.arg.attribute_name = "is_disabled"
    /\ call.arg.status_code = 200
    /\ inst # call.pre.inst
    /\ <<call.cls, extract_id(inst)>> \in DOMAIN call.pre.state
    /\ state # call.pre.state

\* C10: in normal mode an update of an editable attribute answered anything but
\* 200 raises UpdateFailed carrying the response text, and changes neither the
\* instance nor the State Store.
C10_UpdateFailureChangesNothing ==
    (/\ call.op \in UpdateOps
     /\ ~plan_mode
     /\ call.arg.attribute_name \in Editable(call.cls)
     /\ call.arg.status_code # 200)
    => /\ call.outcome = "raised"
       /\ call.value.v = "UpdateFailed"
       /\ call.value.detail = call.arg.text
       /\ inst = call.pre.inst
       /\ state = call.pre.state

C10_Witness ==
    /\ call.op \in UpdateOps
    /\ ~plan_mode
    /\ call.arg.attribute_name = "name"
    /\ call.arg.status_code = 204
    /\ call.outcome = "raised"
    /\ <<call.cls, extract_id(inst)>> \in DOMAIN state

\* The State Store without the entries under `keys`.
Without(store, keys) == [k \in DOMAIN store \ keys |-> store[k]]

\* The entries of the pull requests that the call's listing named.
ListedPullRequests == {<<"PullRequest", id>> : id \in call.arg.pull_request_ids}

\* C11 (as stated): when the DELETE of a delete_by_id answers 204, the entry
\* (type name, resource_id) is removed and every other entry is unchanged.
C11_DeleteRemovesOnlyItsEntry ==
    (call.op \in DeleteByIdOps /\ Sent("delete") /\ call.arg.status_code = 204)
    => /\ call.outcome = "returned"
       /\ state = Without(call.pre.state, {<<call.cls, call.arg.resource_id>>})

\* C11 (amended): when the DELETE of a delete_by_id answers 204, the entry
\* (type name, resource_id) is removed; Repo.delete_by_id also removes the
\* PullRequest entries of the pull requests listed for the repo; every other
\* entry is unchanged.
C11_DeleteRemovesItsEntryAndListed ==
    (call.op \in DeleteByIdOps /\ Sent("delete") /\ call.arg.status_code = 204)
    => /\ call.outcome = "returned"
       /\ state = Without(call.pre.state,
                          {<<call.cls, call.arg.resource_id>>} \cup ListedPullRequests)

C11_Witness ==
    /\ call.op = "_delete_by_id"
    /\ Sent("delete")
    /\ call.arg.status_code = 204
    /\ <<call.cls, call.arg.resource_id>> \in DOMAIN call.pre.state
    /\ DOMAIN state # {}

\* Positions in the call's events of its State Store writes to the entry k.
WritesTo(k) == {i \in StateEvents : <<call.events[i][3], call.events[i][4]>> = k}

\* The last of the call's writes to k (k is written by the call).
LastWrite(k) == call.events[CHOOSE i \in WritesTo(k) : \A j \in WritesTo(k) : j <= i]

\* Every entry the call could have read or written.
Touched == DOMAIN state \cup DOMAIN call.pre.state
           \cup {<<call.events[i][3], call.events[i][4]>> : i \in StateEvents}

InstanceOps == UpdateOps \cup {"Repo.delete"}

\* C13: a call made on an instance (an update that succeeds, fails, is invalid
\* or is planned; a delete that first re-enables) leaves the instance's
\* identifier as it was, and every State Store write the call makes for the
\* instance's type is made under that identifier.
C13_IdentifierNeverChanges ==
    call.op \in InstanceOps
    => /\ inst.t = call.pre.inst.t
       /\ extract_id(inst) = extract_id(call.pre.inst)
       /\ \A i \in StateEvents :
             call.events[i][3] = call.cls => call.events[i][4] = extract_id(call.pre.inst)

C13_Witness ==
    /\ call.op = "Repo.update"
    /\ call.outcome = "returned"
    /\ ~plan_mode
    /\ inst # call.pre.inst
    /\ \E i \in StateEvents : call.events[i][2] = "update"

\* C14: for a resource built by from_request_payload, encoding what the
\* decoding of its encoding gives yields the same encoding again.
C14_EncodingStable ==
    (phase = "reencoded" /\ original \in PayloadBuilt) => reencoded = encoded

\* A pull request (nested Member, timestamp) whose encoding is stable although
\* the decoded resource differs from the original.
C14_Witness ==
    /\ phase = "reencoded"
    /\ original \in PayloadBuilt
    /\ original.t = "PullRequest"
    /\ decoded # original
    /\ reencoded = encoded

\* The fields of the resource being encoded that hold a value of type t.
FieldsOf(t) ==
    IF original.t \in get_resource_variables
    THEN {f \in DOMAIN original.v : original.v[f].t = t}
    ELSE {}

\* C15: a field holding a timestamp is encoded under the key marked "datetime",
\* and only under it, as the timestamp's ISO text, and decodes to the same
\* timestamp under the field's own name; a field holding a string is encoded
\* under the unmarked key only and decodes to the same string, never to a
\* timestamp.
C15_DatetimeMarker ==
    /\ phase \in {"encoded", "decoded", "reencoded"} =>
          /\ \A f \in FieldsOf("datetime") :
                /\ Key(f, "datetime") \in DOMAIN encoded.v
                /\ encoded.v[Key(f, "datetime")] = Str(original.v[f].v)
                /\ Key(f, "") \notin DOMAIN encoded.v
          /\ \A f \in FieldsOf("str") :
                /\ Key(f, "") \in DOMAIN encoded.v
                /\ Key(f, "datetime") \notin DOMAIN encoded.v
    /\ (phase \in {"decoded", "reencoded"} /\ original.t \in get_resource_variables) =>
          /\ ~IsErr(decoded)
          /\ \A f \in FieldsOf("datetime") \cup FieldsOf("str") :
                /\ f \in DOMAIN decoded.v
                /\ decoded.v[f] = original.v[f]

\* A decoded resource with two timestamp fields and string fields.
C15_Witness ==
    /\ phase = "decoded"
    /\ original.t = "Environment"
    /\ original.v["modified_on"] = Datetime("2024-01-01T01:01:01")
    /\ decoded.v["modified_on"] = Datetime("2024-01-01T01:01:01")
    /\ decoded.v["created_on"] = Datetime("2021-08-01T00:00:00")
    /\ decoded.v["name"] = Str("a")

\* The fields of the resource being encoded that hold a registered resource.
NestedFields ==
    IF original.t \in get_resource_variables
    THEN {f \in DOMAIN original.v : original.v[f].t \in get_resource_variables}
    ELSE {}

\* C16: a field holding a resource of a registered type T is encoded under the
\* key marked T, and only under it, as T's encoding of that resource; decoded,
\* the field's own name holds what T's from_json gives for that encoding, an
\* instance of T.
C16_NestedResourceMarker ==
    /\ phase \in {"encoded", "decoded", "reencoded"} =>
          \A f \in NestedFields :
              LET T == original.v[f].t
              IN  /\ Key(f, T) \in DOMAIN encoded.v
                  /\ encoded.v[Key(f, T)] = to_json(original.v[f])
                  /\ \A k \in DOMAIN encoded.v : k.name = f => k.tag = T
    /\ (phase \in {"decoded", "reencoded"} /\ original.t \in get_resource_variables) =>
          /\ ~IsErr(decoded)
          /\ \A f \in NestedFields :
              LET T == original.v[f].t
              IN  /\ f \in DOMAIN decoded.v
                  /\ decoded.v[f].t = T
                  /\ decoded.v[f] = from_json(T, encoded.v[Key(f, T)])
                  /\ DOMAIN decoded.v[f].v = fields(T)

C16_Witness ==
    /\ phase = "decoded"
    /\ original.t = "Environment"
    /\ original.v["modified_by"] = Member1
    /\ decoded.v["modified_by"] = Member1
    /\ decoded.v["created_by"].t = "Member"

\* The values of type "datetime" or of a registered resource type.
IsTyped(value) == value.t = "datetime" \/ value.t \in get_resource_variables

\* C17: a timestamp or a nested resource held in a mapping that is an element
\* of a list-valued field comes back from a decode of the encoding as the
\* same timestamp or resource.
C17_CollectionsRoundTrip ==
    (phase = "decoded" /\ original.t \in get_resource_variables) =>
        \A f \in FieldsOf("list") :
            \A i \in DOMAIN original.v[f].v :
                LET element == original.v[f].v[i]
                IN  element.t = "dict" =>
                        \A key \in DOMAIN element.v :
                            IsTyped(element.v[key]) =>
                                /\ decoded.v[f].v[i].v[key].t = element.v[key].t
                                /\ decoded.v[f].v[i].v[key] = element.v[key]

\* The required fields of cls for which a JSON tree has no entry.
MissingFields(cls, tree) ==
    (fields(cls) \ DOMAIN field_defaults(cls)) \ {k.name : k \in DOMAIN tree.v}

\* The type markers of a JSON tree that the registry does not know.
UnknownMarkers(tree) == {k.tag : k \in ResourceKeys(tree)} \ get_resource_variables

\* C18: decoding a stored tree that carries the marker of a type the registry
\* does not know raises a lookup error, and decoding one that lacks a required
\* field of the class (or of a nested resource's class) raises the
\* constructor's error; either way the caller gets the exception and no resource.
C18_DecodeErrorsSurface ==
    (phase \in {"decoded", "reencoded"} /\ original = None) =>
        /\ UnknownMarkers(encoded) # {} =>
              /\ IsErr(decoded)
              /\ decoded.v = "KeyError"
              /\ decoded.cls \in UnknownMarkers(encoded)
        /\ (UnknownMarkers(encoded) = {} /\ MissingFields(target, encoded) # {}) =>
              /\ IsErr(decoded)
              /\ decoded.v = "TypeError"
        /\ (\E k \in ResourceKeys(encoded) :
               k.tag \in get_resource_variables /\ MissingFields(k.tag, encoded.v[k]) # {}) =>
              IsErr(decoded)

C18_Witness ==
    /\ phase = "decoded"
    /\ original = None
    /\ target = "Repo"
    /\ UnknownMarkers(encoded) = {}
    /\ MissingFields(target, encoded) = {"name"}
    /\ IsErr(decoded)

\* Positions in the call's events of the diagnostics it printed.
PrintEvents == {i \in DOMAIN call.events : call.events[i][1] = "print"}

\* A delete_by_id whose DELETE was answered 404.
DeleteAnswered404 == call.op \in DeleteByIdOps /\ Sent("delete") /\ call.arg.status_code = 404

Built(cls, payload) == from_request_payload(cls, payload)

\* The call ended as from_request_payload of `payload` ends.
EndsAsBuilt(payload) ==
    IF IsErr(Built(call.cls, payload))
    THEN call.outcome = "raised" /\ call.value = Built(call.cls, payload)
    ELSE call.outcome = "returned" /\ call.value = Built(call.cls, payload)

\* A fetch of one resource that was answered with a status below 300.
FetchSucceeded == call.op \in GetOps /\ call.arg.status_code < 300

\* C20 (as stated): a successful fetch of one resource builds the resource from
\* the first element of the body's "value" member when there is one, and from
\* the whole body otherwise; when the "value" list is empty the call returns
\* a resource or raises the not-found error.
C20_FetchOnePayload ==
    FetchSucceeded =>
        IF "value" \in DOMAIN call.arg.json THEN
            IF Len(call.arg.json["value"]) > 0
            THEN EndsAsBuilt(call.arg.json["value"][1])
            ELSE call.outcome = "returned" \/ call.value.v = "ResourceNotFound"
        ELSE EndsAsBuilt(call.arg.json)

\* What the payload mapping makes of each element of the listing the call got.
Mapped == [i \in DOMAIN call.arg.json["value"] |->
               from_request_payload(call.cls, call.arg.json["value"][i])]

\* The call got a listing, all of whose elements the payload mapping accepts.
GotListing ==
    /\ call.arg.status_code < 300
    /\ "value" \in DOMAIN call.arg.json
    /\ \A i \in DOMAIN Mapped : ~IsErr(Mapped[i])

\* The positions of the listing whose resource has the name asked for.
NamedAsAsked == {i \in DOMAIN Mapped : Mapped[i].v["name"].v = call.arg.repo_name}

\* C21: Repo.get_by_name returns the first resource of the listing, in the
\* listing's order, whose name is the one asked for, and None (no exception)
\* when there is none; it sends exactly one GET and leaves the State Store alone.
C21_FindOneFirstMatch ==
    call.op = "Repo.get_by_name" =>
        /\ Cardinality(HttpEvents) = 1
        /\ Sent("get")
        /\ StateEvents = {}
        /\ state = call.pre.state
        /\ GotListing =>
              /\ call.outcome = "returned"
              /\ NamedAsAsked = {} => call.value = None
              /\ NamedAsAsked # {} =>
                    call.value = Mapped[CHOOSE i \in NamedAsAsked : \A j \in NamedAsAsked : i <= j]

\* Two repositories of the listing have the name asked for.
C21_Witness ==
    /\ call.op = "Repo.get_by_name"
    /\ GotListing
    /\ Cardinality(NamedAsAsked) = 2
    /\ Mapped[1] # Mapped[2]
    /\ call.value = Mapped[1]

\* C22: Repo.get_all (fetch_all) returns one resource per element of the
\* response's "value" list, in the same order, each built by the payload
\* mapping; a status of 300 or more raises the generic request error with the
\* response's text and returns nothing; an element the mapping rejects raises
\* that element's error; the State Store is never written.
C22_FetchAllMapsInOrder ==
    call.op = "Repo.get_all" =>
        /\ StateEvents = {}
        /\ state = call.pre.state
        /\ call.arg.status_code >= 300 =>
              /\ call.outcome = "raised"
              /\ call.value = Err("ValueError", "Repo", call.arg.text)
        /\ GotListing =>
              /\ call.outcome = "returned"
              /\ call.value.t = "list"
              /\ Len(call.value.v) = Len(call.arg.json["value"])
              /\ \A i \in DOMAIN call.value.v : call.value.v[i] = Mapped[i]
        /\ (call.arg.status_code < 300 /\ "value" \in DOMAIN call.arg.json /\ ~GotListing) =>
              /\ call.outcome = "raised"
              /\ \E i \in DOMAIN Mapped : call.value = Mapped[i]

\* A listing of two different repositories comes back as two resources in order.
C22_Witness ==
    /\ call.op = "Repo.get_all"
    /\ GotListing
    /\ Len(call.arg.json["value"]) = 2
    /\ Mapped[1] # Mapped[2]
    /\ call.value = List(<<Mapped[1], Mapped[2]>>)

\* C23 (as stated): when create is called with refetch enabled and the POST
\* succeeds with a payload the mapping accepts, the resource is fetched again
\* (a GET after the POST, before any write to the State Store), and the call
\* returns the fetched resource and leaves its encoding in the State Store
\* under its id.
C23_RefetchThenStore ==
    (/\ call.op = "_create"
     /\ ~plan_mode
     /\ call.arg.refetch
     /\ call.arg.status_code < 300
     /\ ~IsErr(Built(call.cls, call.arg.json)))
    => /\ call.outcome = "returned"
       /\ \E g \in HttpEvents :
             /\ call.events[g][2] = "get"
             /\ \A i \in StateEvents : g < i
       /\ <<call.cls, extract_id(call.value)>> \in DOMAIN state
       /\ state[<<call.cls, extract_id(call.value)>>] = to_json(call.value)

\* The ids a store holds for a kind.
IdsOf(store, kind) == {k[2] : k \in {x \in DOMAIN store : x[1] = kind}}

\* The id of the resource a create call's POST made on the server: the call's
\* POST was answered below 300 with a payload that names the resource.
PostedIds ==
    IF /\ call.op \in CreateOps
       /\ call.arg.status_code < 300
       /\ ~IsErr(Built(call.cls, call.arg.json))
    THEN {extract_id(Built(call.cls, call.arg.json))}
    ELSE {}

\* The id whose DELETE the call saw answered 204 or 404.
DeletedIds ==
    IF /\ call.op \in DeleteByIdOps \cup {"Repo.delete"}
       /\ Sent("delete")
       /\ call.arg.status_code \in {204, 404}
    THEN {call.arg.resource_id}
    ELSE {}

\* C24 (as stated): in normal mode, every create, update and delete call,
\* returning or raising, changes the ids the State Store holds for a kind by
\* exactly the id whose POST succeeded in the call (added) and the id whose
\* DELETE was answered 204 or 404 in the call (removed); so the ids held are
\* always those created and not deleted, also when a later step of a create
\* (payload decoding, the refetch) raises.
C24_SystemOfRecord ==
    (/\ call.op \in CreateOps \cup UpdateOps \cup DeleteByIdOps \cup {"Repo.delete"}
     /\ ~plan_mode)
    => \A kind \in {"Repo", "Project", "PullRequest"} :
          IdsOf(state, kind) =
              (IdsOf(call.pre.state, kind)
                   \cup (IF kind = call.cls THEN PostedIds ELSE {}))
              \ (IF kind = call.cls THEN DeletedIds ELSE {})

\* C25: in normal mode, a create whose POST is answered with a status of 300
\* or more raises and leaves the State Store exactly as it was before the
\* call: no entry is added or replaced, for any kind or id.
C25_FailedCreateLeavesStore ==
    (call.op \in CreateOps /\ ~plan_mode /\ call.arg.status_code >= 300)
    => /\ call.outcome = "raised"
       /\ StateEvents = {}
       /\ state = call.pre.state

\* A create is refused with the body of a resource of its kind that the store
\* already holds in another version.
C25_Witness ==
    /\ call.op \in CreateOps
    /\ ~plan_mode
    /\ call.arg.status_code = 409
    /\ ~IsErr(Built(call.cls, call.arg.json))
    /\ <<call.cls, extract_id(Built(call.cls, call.arg.json))>> \in DOMAIN state
    /\ state[<<call.cls, extract_id(Built(call.cls, call.arg.json))>>]
           # to_json(Built(call.cls, call.arg.json))
    /\ state = call.pre.state

\* The instance Repo.delete was called on was disabled.
DeleteOfDisabled == call.op = "Repo.delete" /\ truthy(call.pre.inst.v["is_disabled"])

\* The call's HTTP requests with the given method.
Requests(method) == {i \in HttpEvents : call.events[i][2] = method}

\* The update of is_disabled comes first among the call's requests, and every
\* DELETE after it.
PatchThenDelete ==
    /\ Requests("patch") # {}
    /\ \A u \in Requests("patch") :
          /\ \A i \in HttpEvents : u <= i
          /\ \A d \in Requests("delete") : u < d

\* C26 (as stated): Repo.delete on a disabled instance first issues the update
\* that enables it and only then the DELETE; if that update raises, no DELETE
\* is issued and the State Store is as before; on an enabled instance no update
\* request is issued before the DELETE.
C26_EnableBeforeDelete ==
    call.op = "Repo.delete" =>
        IF DeleteOfDisabled THEN
            /\ PatchThenDelete
            /\ call.arg.update_status_code # 200 =>
                  /\ call.outcome = "raised"
                  /\ Requests("delete") = {}
                  /\ state = call.pre.state
            /\ (call.arg.update_status_code = 200 /\ call.arg.pr_status_code < 300) =>
                  Cardinality(Requests("delete")) = 1
        ELSE
            /\ Requests("patch") = {}
            /\ call.arg.pr_status_code < 300 => Cardinality(Requests("delete")) = 1

\* C26 (amended): in normal mode Repo.delete on a disabled instance first
\* issues the update that enables it and only then the DELETE; if that update
\* raises, no DELETE is issued and the State Store is as before. In plan mode
\* the update is staged, not issued, and the DELETE is issued all the same. On
\* an enabled instance no update request is issued before the DELETE.
C26_EnableBeforeDeleteInNormalMode ==
    call.op = "Repo.delete" =>
        IF DeleteOfDisabled /\ ~plan_mode THEN
            /\ PatchThenDelete
            /\ call.arg.update_status_code # 200 =>
                  /\ call.outcome = "raised"
                  /\ Requests("delete") = {}
                  /\ state = call.pre.state
            /\ (call.arg.update_status_code = 200 /\ call.arg.pr_status_code < 300) =>
                  Cardinality(Requests("delete")) = 1
        ELSE IF DeleteOfDisabled THEN
            /\ Requests("patch") = {}
            /\ Len(planned) = Len(call.pre.planned) + 1
            /\ planned[Len(planned)] = [kind |-> "Repo", operation |-> "update"]
            /\ call.arg.pr_status_code < 300 => Cardinality(Requests("delete")) = 1
        ELSE
            /\ Requests("patch") = {}
            /\ planned = call.pre.planned
            /\ call.arg.pr_status_code < 300 => Cardinality(Requests("delete")) = 1

\* A disabled repo held by the store is enabled and then deleted in one call.
C26_Witness ==
    /\ DeleteOfDisabled
    /\ ~plan_mode
    /\ call.outcome = "returned"
    /\ PatchThenDelete
    /\ Requests("delete") # {}
    /\ <<"Repo", call.arg.resource_id>> \in DOMAIN call.pre.state
    /\ <<"Repo", call.arg.resource_id>> \notin DOMAIN state

\* C27: after Repo.delete_by_id returns without raising, the State Store holds
\* neither the Repo entry of that repo_id nor a PullRequest entry of a pull
\* request listed for the repo (the listing asks for every status); the
\* PullRequest entries of pull requests not listed are unchanged.
C27_RepoDeleteCascades ==
    (call.op = "Repo.delete_by_id" /\ call.outcome = "returned")
    => /\ <<"Repo", call.arg.resource_id>> \notin DOMAIN state
       /\ \A k \in ListedPullRequests : k \notin DOMAIN state
       /\ \A k \in DOMAIN call.pre.state :
             (k[1] = "PullRequest" /\ k \notin ListedPullRequests)
             => (k \in DOMAIN state /\ state[k] = call.pre.state[k])

\* The store held two pull requests; the one listed for the repo is gone, the
\* other one is kept.
C27_Witness ==
    /\ call.op = "Repo.delete_by_id"
    /\ call.outcome = "returned"
    /\ \E k \in ListedPullRequests : k \in DOMAIN call.pre.state
    /\ \E k \in DOMAIN call.pre.state :
          k[1] = "PullRequest" /\ k \notin ListedPullRequests /\ k \in DOMAIN state

\* The planned changes the call staged.
PlanEvents == {i \in DOMAIN call.events : call.events[i][1] = "plan"}

\* C28: update validates before it consults plan mode. In plan mode an update
\* naming a non-editable attribute raises the invalid-attribute error and
\* stages no planned change; an update naming an editable attribute stages one
\* planned update, returns, and leaves the instance's attribute (and the whole
\* instance) as it was.
C28_ValidateBeforePlan ==
    (plan_mode /\ call.op \in UpdateOps)
    => IF call.arg.attribute_name \notin Editable(call.cls) THEN
           /\ call.outcome = "raised"
           /\ call.value.v = "ValueError"
           /\ PlanEvents = {}
           /\ planned = call.pre.planned
       ELSE
           /\ call.outcome = "returned"
           /\ Cardinality(PlanEvents) = 1
           /\ planned = Append(call.pre.planned, [kind |-> call.cls, operation |-> "update"])
           /\ inst = call.pre.inst
           /\ getattr(inst, call.arg.attribute_name)
                  = getattr(call.pre.inst, call.arg.attribute_name)

\* In plan mode, with a change already staged, an update of a non-editable
\* attribute is rejected.
C28_Witness ==
    /\ plan_mode
    /\ call.op = "Repo.update"
    /\ call.arg.attribute_name = "repo_id"
    /\ call.outcome = "raised"
    /\ call.pre.planned # <<>>
    /\ planned = call.pre.planned

\* The answer the call's DELETE got.
DeleteAnswer == Response(call.arg.status_code, call.arg.text, call.arg.json)

\* The world the call started from.
PreWorld == [state |-> call.pre.state, planned |-> call.pre.planned, events |-> <<>>,
             inst |-> call.pre.inst]

\* What the generic delete_by_id does in normal mode from the same world with
\* the same answer.
InNormalMode ==
    _delete_by_id(call.cls, [plan_mode |-> FALSE, suppress_warnings |-> suppress_warnings],
                  call.arg.resource_id, DeleteAnswer, PreWorld)

\* C29: plan mode does not intercept deletion. In plan mode a delete_by_id
\* stages nothing, and it and Repo.delete send the HTTP DELETE once the listing
\* of the repo's pull requests has succeeded, and on 204 or 404 return with the
\* entry removed from the State Store; the generic delete_by_id ends exactly
\* as it does in normal mode.
C29_PlanModeDeletes ==
    (plan_mode /\ call.op \in DeleteByIdOps \cup {"Repo.delete"})
    => /\ call.op \in DeleteByIdOps => (PlanEvents = {} /\ planned = call.pre.planned)
       /\ call.arg.pr_status_code < 300 => Cardinality(Requests("delete")) = 1
       /\ (Sent("delete") /\ call.arg.status_code \in {204, 404}) =>
             /\ call.outcome = "returned"
             /\ <<call.cls, call.arg.resource_id>> \notin DOMAIN state
       /\ call.op = "_delete_by_id" =>
             /\ call.outcome = InNormalMode.outcome
             /\ call.value = InNormalMode.value
             /\ call.events = InNormalMode.w.events
             /\ state = InNormalMode.w.state

\* With the plan flag set, a delete_by_id sends a DELETE and takes an entry out
\* of the State Store.
C29_Witness ==
    /\ plan_mode
    /\ call.op \in DeleteByIdOps
    /\ Sent("delete")
    /\ <<call.cls, call.arg.resource_id>> \in DOMAIN call.pre.state
    /\ <<call.cls, call.arg.resource_id>> \notin DOMAIN state

\* ---------------------------------------------------------------- AuditLog.get_all

\* Most pages a query is answered with.
MaxPages == 3

\* The instants of the model, in order of time; the third is datetime.now().
Calendar == <<"2021-08-01T00:00:00", "2023-12-31T01:01:01", "2024-01-01T01:01:01",
              "2024-06-01T00:00:00">>
Instant(d) == CHOOSE i \in DOMAIN Calendar : Calendar[i] = d.v
now == Datetime(Calendar[3])
\* datetime.now() - timedelta(days=1)
day_before(d) == Datetime(Calendar[Instant(d) - 1])

\* Entries of the audit service (the 22 members from_request_payload reads).
AuditLogPayloads ==
    {[id |-> Str(i), correlationId |-> Str("c"), activityId |-> Str("v"),
      actorUserId |-> Str("u"), actorClientId |-> Str("k"), actorUPN |-> Str("u@x"),
      authenticationMechanism |-> Str("AAD"), timestamp |-> Str("2024-01-01T01:01:01.01Z"),
      scopeType |-> Str("organization"), scopeDisplayName |-> Str("o"), scopeId |-> Str("o"),
      projectId |-> Str("p"), projectName |-> Str("p"), ipAddress |-> None,
      userAgent |-> Str("agent"), actionId |-> Str("Git.CreateRepo"), details |-> Str("d"),
      area |-> Str("Git"), category |-> Str("create"), categoryDisplayName |-> Str("Create"),
      actorDisplayName |-> Str("First Last"), data |-> Dict(<<>>)] : i \in Ids}

\* AuditLog.from_request_payload
AuditLog_from_request_payload(data) ==
    LET created_on == from_ado_date_string(data["timestamp"])
    IN  IF IsErr(created_on) THEN created_on
        ELSE Obj("AuditLog",
                 [audit_log_id |-> data["id"], correlation_id |-> data["correlationId"],
                  activity_id |-> data["activityId"], actor_user_id |-> data["actorUserId"],
                  actor_client_id |-> data["actorClientId"], actor_UPN |-> data["actorUPN"],
                  authentication_mechanism |-> data["authenticationMechanism"],
                  created_on |-> created_on, scope_type |-> data["scopeType"],
                  scope_display_name |-> data["scopeDisplayName"], scope_id |-> data["scopeId"],
                  project_id |-> data["projectId"], project_name |-> data["projectName"],
                  ip_address |-> data["ipAddress"], user_agent |-> data["userAgent"],
                  action_id |-> data["actionId"], details |-> data["details"],
                  area |-> data["area"], category |-> data["category"],
                  category_display_name |-> data["categoryDisplayName"],
                  actor_display_name |-> data["actorDisplayName"], data |-> data["data"]])

\* What one page holds: nothing, one entry, or two different ones.
EntryLists ==
    {<<>>} \cup {<<e>> : e \in {x \in AuditLogPayloads : x.id = Str("1")}}
    \cup {<<e, f>> : e \in {x \in AuditLogPayloads : x.id = Str("2")},
                     f \in {x \in AuditLogPayloads : x.id = Str("1")}}

AuditPage(hasMore, continuationToken, entries) ==
    Response(200, "body", [hasMore |-> Bool(hasMore), continuationToken |-> continuationToken,
                           decoratedAuditLogEntries |-> entries])

\* A page that announces another one names the token to ask for it with.
MorePages == {AuditPage(TRUE, Str(t), es) : t \in {"t1", "t2"}, es \in EntryLists}

\* What a query can end with: a last page, a refusal for lack of the
\* permission, or another failure (whose body has none of the members read).
EndPages ==
    {AuditPage(FALSE, t, es) : t \in {None, Str("t9")}, es \in EntryLists}
    \cup {Response(403, "denied", <<>>), Response(500, "boom", <<>>)}

\* The audit service during one query: the answers to the successive requests.
AuditServers ==
    UNION {{Append(more, end) : more \in [1..n -> MorePages], end \in EndPages} :
              n \in 0..(MaxPages - 1)}

\* url_token that never names a token.
url_token_never(continuation_token) == None

\* The continuationToken parameter of the request's URL, None when left out.
url_token(continuation_token) ==
    IF truthy(continuation_token) THEN continuation_token ELSE None

\* A call of AuditLog.get_all starts.
AuditInit ==
    /\ \E start_time \in {None} \cup {Datetime(Calendar[i]) : i \in {1, 4}},
          server \in AuditServers :
          audit = [pc |-> "call", start_time |-> start_time, end_time |-> now,
                   server |-> server, combined_entries |-> <<>>, has_more |-> Bool(TRUE),
                   continuation_token |-> None, sent |-> <<>>,
                   outcome |-> "running", value |-> None]
    /\ LifecycleIdle
    /\ CodecIdle

\* Lines 62-67: the default of start_time, the assertion, the locals.
AuditStart ==
    /\ audit.pc = "call"
    /\ LET start_time == IF audit.start_time.t = "none" THEN day_before(now)
                         ELSE audit.start_time
       IN  IF Instant(start_time) <= Instant(audit.end_time)
           THEN audit' = [audit EXCEPT !.pc = "loop", !.start_time = start_time]
           ELSE audit' = [audit EXCEPT !.pc = "raised", !.outcome = "raised",
                              !.value = Err("AssertionError", "AuditLog",
                                            "Start time must be before end time!")]
    /\ UNCHANGED <<lifecycle_vars, codec_vars>>

\* One turn of the loop (lines 68-77): a request and what is made of its answer.
AuditRequestPage ==
    /\ audit.pc = "loop"
    /\ truthy(audit.has_more)
    /\ LET sent == Append(audit.sent, url_token(audit.continuation_token))
           data == audit.server[Len(sent)]
       IN  IF data.status_code = 403 THEN
               audit' = [audit EXCEPT !.pc = "raised", !.sent = sent, !.outcome = "raised",
                             !.value = Err("InvalidPermissionError", "AuditLog",
                                           "requires 'View audit log'")]
           ELSE IF "hasMore" \notin DOMAIN data.json THEN
               audit' = [audit EXCEPT !.pc = "raised", !.sent = sent, !.outcome = "raised",
                             !.value = Err("KeyError", "AuditLog", "hasMore")]
           ELSE
               audit' = [audit EXCEPT !.sent = sent,
                             !.has_more = data.json["hasMore"],
                             !.continuation_token = data.json["continuationToken"],
                             !.combined_entries = @ \o data.json["decoratedAuditLogEntries"]]
    /\ UNCHANGED <<lifecycle_vars, codec_vars>>

\* Line 78: the loop is left, every entry is mapped.
AuditReturn ==
    /\ audit.pc = "loop"
    /\ ~truthy(audit.has_more)
    /\ LET logs == [i \in DOMAIN audit.combined_entries |->
                        AuditLog_from_request_payload(audit.combined_entries[i])]
           bad == {i \in DOMAIN logs : IsErr(logs[i])}
       IN  IF bad # {}
           THEN audit' = [audit EXCEPT !.pc = "raised", !.outcome = "raised",
                              !.value = logs[CHOOSE i \in bad : \A j \in bad : i <= j]]
           ELSE audit' = [audit EXCEPT !.pc = "returned", !.outcome = "returned",
                              !.value = List(logs)]
    /\ UNCHANGED <<lifecycle_vars, codec_vars>>

AuditNext ==
    \/ AuditStart
    \/ AuditRequestPage
    \/ AuditReturn

\* The call is sequential code: as long as it has a step to take, it takes it.
SpecAudit == AuditInit /\ [][AuditNext]_vars /\ WF_vars(AuditNext)

\* The number of requests the call has sent.
Requested == Len(audit.sent)

RECURSIVE EntriesOfPages(_)
\* The entries of the first n pages, page after page.
EntriesOfPages(n) ==
    IF n = 0 THEN <<>>
    ELSE EntriesOfPages(n - 1) \o audit.server[n].json["decoratedAuditLogEntries"]

\* The call is over.
AuditOver == audit.pc \in {"returned", "raised"}

\* The state part of C30, for an audit service that names a continuation token
\* on every page that reports hasMore.
C30_PagesInOrder ==
    /\ \A i \in DOMAIN audit.sent :
          /\ i = 1 => audit.sent[i] = None
          /\ i > 1 =>
                /\ audit.server[i - 1].status_code # 403
                /\ audit.server[i - 1].json["hasMore"] = Bool(TRUE)
                /\ audit.sent[i] = audit.server[i - 1].json["continuationToken"]
    /\ (audit.pc = "loop" /\ Requested > 0) =>
          audit.has_more = audit.server[Requested].json["hasMore"]
    /\ audit.pc = "returned" =>
          /\ Requested > 0
          /\ audit.server[Requested].json["hasMore"] = Bool(FALSE)
          /\ audit.value.t = "list"
          /\ Len(audit.value.v) = Len(EntriesOfPages(Requested))
          /\ \A i \in DOMAIN audit.value.v :
                audit.value.v[i] = AuditLog_from_request_payload(EntriesOfPages(Requested)[i])
    /\ (Requested > 0 /\ audit.server[Requested].status_code = 403) =>
          /\ audit.pc = "raised"
          /\ audit.value = Err("InvalidPermissionError", "AuditLog", "requires 'View audit log'")

\* C30: AuditLog.get_all keeps requesting pages while the last response
\* reported hasMore true, with no continuation token on the first request and
\* the token of the previous response on each later one; as soon as a response
\* reports hasMore false it stops requesting and returns the entries of all
\* pages in request order, each mapped to an AuditLog; a 403 on any page raises
\* the permission error and nothing is returned; and the call always ends.
C30_Pagination == []C30_PagesInOrder /\ <>AuditOver

\* Three pages were asked for, the second and third with the token of the
\* page before, and the entries of all three came back in order.
C30_Witness ==
    /\ audit.pc = "returned"
    /\ Requested = 3
    /\ audit.sent[2] # audit.sent[3]
    /\ Len(audit.value.v) = 4
    /\ audit.server[1].json["decoratedAuditLogEntries"]
           # audit.server[3].json["decoratedAuditLogEntries"]

====
